---- MODULE Spec2Model ----
(***************************************************************************)
(* Model of gender_analysis/analysis/dunning.py: the Dunning               *)
(* log-likelihood scorer (dunn_individual_word), the batch comparison      *)
(* (dunning_total), the ranking and display walk (dunning_result_displayer,*)
(* dunning_result_to_dict) and the analysis entry points.                  *)
(*                                                                         *)
(* Numbers.  Counts and totals are Python ints and are integers here.      *)
(* Frequencies (int / int) are exact fractions in lowest terms.  Scores    *)
(* are floats computed with math.log; here they are fixed-point integers   *)
(* in units of 1/DunningScale, with the logarithm evaluated by a series to *)
(* 1/FixOne and rounded.                                                   *)
(***************************************************************************)
EXTENDS Integers, Sequences, FiniteSets, TLC

(***************************************************************************)
(* Bounds of the model and constants of the program.                       *)
(***************************************************************************)
MaxCount == 10

MinCombined == 10

Terms == {"he", "she", "and"}

TermOrder == <<"he", "she", "and">>

Counts == {n \in 0..MaxCount : n <= 1 \/ n >= MaxCount - 2}

Tables == UNION {[K -> Counts] : K \in SUBSET Terms}

(***************************************************************************)
(* Fixed-point arithmetic standing for the float arithmetic of math.log.   *)
(***************************************************************************)
FixBase == 10000

FixOne == FixBase * FixBase

Ln2Fix == 69314718

OutDiv == 10

DunningScale == FixOne \div OutDiv

Abs(x) == IF x < 0 THEN -x ELSE x

RECURSIVE GCD(_, _)
GCD(m, n) == IF n = 0 THEN m ELSE GCD(n, m % n)

\* x * y for fixed-point x, y in [0, FixOne), without leaving 32 bits
MulFix(x, y) ==
    LET xh == x \div FixBase
        xl == x % FixBase
        yh == y \div FixBase
        yl == y % FixBase
    IN  xh * yh + (xh * yl + xl * yh) \div FixBase

\* n / d as a fixed-point number, for 0 <= n < d
DivFix(n, d) ==
    LET h == (n * FixBase) \div d
        r == (n * FixBase) % d
    IN  h * FixBase + (r * FixBase) \div d

\* 2 * atanh(z) = 2 * (z + z^3/3 + z^5/5 + ...), summed until the term vanishes
RECURSIVE AtanhSeries(_, _, _, _)
AtanhSeries(t, z2, k, acc) ==
    IF t = 0 THEN 2 * acc
    ELSE AtanhSeries(MulFix(t, z2), z2, k + 2, acc + t \div k)

\* ln(p / q) for p >= q > 0: halve the ratio into [1, 2), then the series
RECURSIVE LnGE(_, _, _)
LnGE(p, q, k) ==
    IF p >= 2 * q THEN LnGE(p, 2 * q, k + 1)
    ELSE LET z == DivFix(p - q, p + q)
         IN  k * Ln2Fix + AtanhSeries(z, MulFix(z, z), 1, 0)

\* math.log(p / q) for p, q > 0, rounded to units of 1/DunningScale
Log(p, q) ==
    LET m == IF p >= q THEN LnGE(p, q, 0) ELSE LnGE(q, p, 0)
        r == (m + OutDiv \div 2) \div OutDiv
    IN  IF p >= q THEN r ELSE -r

\* int / int true division: the exact fraction, in lowest terms
Frac(n, d) ==
    LET g == GCD(Abs(n), Abs(d))
    IN  [num |-> n \div g, den |-> d \div g]

(***************************************************************************)
(* dunn_individual_word                                                    *)
(***************************************************************************)
Raised(err) == [raised |-> err, value |-> 0]

Returned(v) == [raised |-> "", value |-> v]

\* a variant that also flips when the first term is exactly zero
FlipTakenOrZero(c, d, a, b) == a * Log(a * (c + d), c * (a + b)) <= 0

\* `if count_of_word_in_corpus_1 * math.log(count_of_word_in_corpus_1 / e1) < 0'
FlipTaken(c, d, a, b) == a * Log(a * (c + d), c * (a + b)) < 0

\* a variant that never negates the statistic
DunnIndividualWordNoFlip(total_words_in_corpus_1, total_words_in_corpus_2, count_of_word_in_corpus_1, count_of_word_in_corpus_2) ==
    LET a == count_of_word_in_corpus_1
        b == count_of_word_in_corpus_2
        c == total_words_in_corpus_1
        d == total_words_in_corpus_2
    IN  IF c + d = 0 \/ c * (a + b) = 0 \/ d * (a + b) = 0
        THEN Raised("ZeroDivisionError")
        ELSE IF a = 0 \/ b = 0 THEN Raised("ValueError")
        ELSE Returned(2 * (a * Log(a * (c + d), c * (a + b))
                           + b * Log(b * (c + d), d * (a + b))))

\* a variant that tests the sign of the second term instead of the first
DunnIndividualWordFlipOnSecond(total_words_in_corpus_1, total_words_in_corpus_2, count_of_word_in_corpus_1, count_of_word_in_corpus_2) ==
    LET a == count_of_word_in_corpus_1
        b == count_of_word_in_corpus_2
        c == total_words_in_corpus_1
        d == total_words_in_corpus_2
        r == DunnIndividualWordNoFlip(c, d, a, b)
    IN  IF r.raised = "" /\ b * Log(b * (c + d), d * (a + b)) < 0
        THEN Returned(-r.value)
        ELSE r

DunnIndividualWord(total_words_in_corpus_1, total_words_in_corpus_2, count_of_word_in_corpus_1, count_of_word_in_corpus_2) ==
    LET a == count_of_word_in_corpus_1
        b == count_of_word_in_corpus_2
        c == total_words_in_corpus_1
        d == total_words_in_corpus_2
        \* e1 = c * (a + b) / (c + d), e2 = d * (a + b) / (c + d)
        l1 == Log(a * (c + d), c * (a + b))
        l2 == Log(b * (c + d), d * (a + b))
        dunning_log_likelihood == 2 * (a * l1 + b * l2)
    IN  IF c + d = 0 THEN Raised("ZeroDivisionError")
        ELSE IF c * (a + b) = 0 THEN Raised("ZeroDivisionError")
        ELSE IF a = 0 THEN Raised("ValueError")
        ELSE IF d * (a + b) = 0 THEN Raised("ZeroDivisionError")
        ELSE IF b = 0 THEN Raised("ValueError")
        ELSE IF FlipTaken(c, d, a, b) THEN Returned(-dunning_log_likelihood)
        ELSE Returned(dunning_log_likelihood)

(***************************************************************************)
(* dunning_total                                                           *)
(***************************************************************************)
\* the keys of a counter in iteration order
Keys(counter) == SelectSeq(TermOrder, LAMBDA w : w \in DOMAIN counter)

RECURSIVE SumCounts(_, _)
SumCounts(counter, ks) ==
    IF ks = <<>> THEN 0
    ELSE counter[Head(ks)] + SumCounts(counter, Tail(ks))

\* for word in counter: total += counter[word]
TotalWords(counter) == SumCounts(counter, Keys(counter))

\* a variant whose lookup of an absent word leaves the word in the counter
MemberLookupInserting(counter, word) ==
    IF word \in DOMAIN counter
    THEN [present |-> TRUE, value |-> counter[word], counter |-> counter]
    ELSE [present |-> FALSE, value |-> 0,
          counter |-> [w \in DOMAIN counter \cup {word} |->
                          IF w \in DOMAIN counter THEN counter[w] ELSE 0]]

\* `if word in counter2: counter2_wordcount = counter2[word]'
MemberLookup(counter, word) ==
    IF word \in DOMAIN counter
    THEN [present |-> TRUE, value |-> counter[word], counter |-> counter]
    ELSE [present |-> FALSE, value |-> 0, counter |-> counter]

\* a variant that tests the count in the first counter alone
BelowThresholdFirstOnly(c1, c2) == c1 < MinCombined

\* a variant that lets a combined count one below the threshold through
BelowThresholdOffByOne(c1, c2) == c1 + c2 + 1 < MinCombined

\* `if counter1_wordcount + counter2_wordcount < 10: continue'
BelowThreshold(c1, c2) == c1 + c2 < MinCombined

\* a variant that divides the first count by the second total
ResultRecordWrongTotal(dunning_word, c1, c2, total1, total2) ==
    [dunning     |-> dunning_word,
     count_total |-> c1 + c2,
     count_corp1 |-> c1,
     count_corp2 |-> c2,
     freq_total  |-> Frac(c1 + c2, total1 + total2),
     freq_corp1  |-> Frac(c1, total2),
     freq_corp2  |-> Frac(c2, total2)]

\* the record stored under a word
ResultRecord(dunning_word, c1, c2, total1, total2) ==
    [dunning     |-> dunning_word,
     count_total |-> c1 + c2,
     count_corp1 |-> c1,
     count_corp2 |-> c2,
     freq_total  |-> Frac(c1 + c2, total1 + total2),
     freq_corp1  |-> Frac(c1, total1),
     freq_corp2  |-> Frac(c2, total2)]

\* one pass of `for word in counter1'
TotalStep(st, word, total1, total2) ==
    LET counter1_wordcount == st.counter1[word]
        look == MemberLookup(st.counter2, word)
        counter2_wordcount == look.value
        dunning_word == DunnIndividualWord(total1, total2, counter1_wordcount,
                                           counter2_wordcount)
        st2 == [st EXCEPT !.counter2 = look.counter]
    IN  IF st.raised # "" THEN st
        ELSE IF ~look.present THEN st2
        ELSE IF BelowThreshold(counter1_wordcount, counter2_wordcount) THEN st2
        ELSE IF dunning_word.raised # ""
             THEN [st2 EXCEPT !.raised = dunning_word.raised]
        ELSE IF total1 + total2 = 0 \/ total1 = 0 \/ total2 = 0
             THEN [st2 EXCEPT !.raised = "ZeroDivisionError"]
        ELSE [st2 EXCEPT !.result = Append(@,
                 [term |-> word,
                  rec  |-> ResultRecord(dunning_word.value, counter1_wordcount,
                                        counter2_wordcount, total1, total2)])]

RECURSIVE TotalLoop(_, _, _, _)
TotalLoop(st, ks, total1, total2) ==
    IF ks = <<>> THEN st
    ELSE TotalLoop(TotalStep(st, Head(ks), total1, total2), Tail(ks),
                   total1, total2)

\* dunning_total(counter1, counter2): the result (a dict, kept as the sequence
\* of its items in insertion order), the error raised if any, and the two
\* counters as the call leaves them
DunningTotal(c1, c2) ==
    TotalLoop([result |-> <<>>, raised |-> "", counter1 |-> c1, counter2 |-> c2],
              Keys(c1), TotalWords(c1), TotalWords(c2))

\* counter[word] of a Counter: 0 for a word it does not hold
CounterGet(counter, word) ==
    IF word \in DOMAIN counter THEN counter[word] ELSE 0

\* dunn_individual_word_by_corpus, on the word counters of the two corpora:
\* `return dunn_individual_word(a, b, c, d)'
DunnIndividualWordByCorpus(counter_1, counter_2, word) ==
    LET a == CounterGet(counter_1, word)
        b == CounterGet(counter_2, word)
        c == TotalWords(counter_1)
        d == TotalWords(counter_2)
    IN  DunnIndividualWord(a, b, c, d)

(***************************************************************************)
(* dunning_result_displayer and dunning_result_to_dict                     *)
(***************************************************************************)
MaxTopN == 2

\* tags the tagger may give a bare term
Tags == {"JJ", "VB", "NN"}

pos_names_to_tags ==
    [adjectives |-> <<"JJ", "JJR", "JJS">>,
     adverbs    |-> <<"RB", "RBR", "RBS", "WRB">>,
     verbs      |-> <<"VB", "VBD", "VBG", "VBN", "VBP", "VBZ">>,
     pronouns   |-> <<"PRP", "PRP$", "WP", "WP$">>]

\* values of part_of_speech_to_include: None, a str, a tuple or a list
FilterNone == [kind |-> "None", name |-> "", tags |-> <<>>]

FilterName(n) == [kind |-> "str", name |-> n, tags |-> <<>>]

FilterTuple(ts) == [kind |-> "tuple", name |-> "", tags |-> ts]

FilterList(ts) == [kind |-> "list", name |-> "", tags |-> ts]

Filters ==
    {FilterNone}
    \cup {FilterName(n) : n \in {"adjectives", "adverbs", "verbs", "pronouns", "nouns"}}
    \cup {FilterTuple(<<"NN">>), FilterTuple(<<"NN", "JJ">>), FilterTuple(<<>>)}
    \cup {FilterList(<<"NN">>)}

Range(seq) == {seq[i] : i \in DOMAIN seq}

\* `part_of_speech_to_include in pos_names_to_tags' hashes its operand
Unhashable(f) == f.kind = "list"

\* `if part_of_speech_to_include in pos_names_to_tags: ... = pos_names_to_tags[...]'
ResolveFilter(f) ==
    IF f.kind = "str" /\ f.name \in DOMAIN pos_names_to_tags
    THEN FilterList(pos_names_to_tags[f.name])
    ELSE f

\* `tag in name' for a str is a substring test; the tags are upper-case and
\* the names lower-case, so only a name that is itself the tag contains it
SubstringOf(tag, name) == tag = name

\* truth value of part_of_speech_to_include
Truthy(f) ==
    CASE f.kind = "None" -> FALSE
      [] f.kind = "str"  -> f.name # ""
      [] OTHER           -> f.tags # <<>>

\* `term_pos not in part_of_speech_to_include'
TagNotIn(tag, f) ==
    IF f.kind = "str" THEN ~SubstringOf(tag, f.name)
    ELSE tag \notin Range(f.tags)

\* `if part_of_speech_to_include and term_pos not in part_of_speech_to_include: continue'
Skipped(term, f, tag_of) == Truthy(f) /\ TagNotIn(tag_of[term], f)

\* a variant that sorts ascending and reverses the list for reverse=True
StaysBeforeReversingTies(h, x, reverse) ==
    IF reverse THEN h.rec.dunning > x.rec.dunning
    ELSE h.rec.dunning <= x.rec.dunning

\* whether item h stays in front of a later item x in sorted(..., reverse=reverse)
StaysBefore(h, x, reverse) ==
    IF reverse THEN h.rec.dunning >= x.rec.dunning
    ELSE h.rec.dunning <= x.rec.dunning

RECURSIVE InsertByScore(_, _, _)
InsertByScore(s, x, reverse) ==
    IF s = <<>> THEN <<x>>
    ELSE IF StaysBefore(Head(s), x, reverse)
         THEN <<Head(s)>> \o InsertByScore(Tail(s), x, reverse)
         ELSE <<x>> \o s

RECURSIVE SortLoop(_, _, _)
SortLoop(items, acc, reverse) ==
    IF items = <<>> THEN acc
    ELSE SortLoop(Tail(items), InsertByScore(acc, Head(items), reverse), reverse)

\* sorted(dunning_result.items(), key=lambda x: x[1]['dunning'], reverse=reverse)
SortedResults(items, reverse) == SortLoop(items, <<>>, reverse)

\* a variant of the walk in which a skipped term uses up one of the slots
RECURSIVE RankWalkCountingSkipped(_, _, _, _, _, _)
RankWalkCountingSkipped(sorted_results, number_of_terms_to_display, count_displayed, f, tag_of, acc) ==
    IF sorted_results = <<>> THEN acc
    ELSE IF count_displayed = number_of_terms_to_display THEN acc
    ELSE IF Skipped(Head(sorted_results).term, f, tag_of)
         THEN RankWalkCountingSkipped(Tail(sorted_results), number_of_terms_to_display,
                       count_displayed + 1, f, tag_of, acc)
         ELSE RankWalkCountingSkipped(Tail(sorted_results), number_of_terms_to_display,
                       count_displayed + 1, f, tag_of,
                       Append(acc, Head(sorted_results)))

\* `for result in sorted_results:' with its break and continue; the items
\* that reach the body of the loop, in order
RECURSIVE RankWalk(_, _, _, _, _, _)
RankWalk(sorted_results, number_of_terms_to_display, count_displayed, f, tag_of, acc) ==
    IF sorted_results = <<>> THEN acc
    ELSE IF count_displayed = number_of_terms_to_display THEN acc
    ELSE IF Skipped(Head(sorted_results).term, f, tag_of)
         THEN RankWalk(Tail(sorted_results), number_of_terms_to_display,
                       count_displayed, f, tag_of, acc)
         ELSE RankWalk(Tail(sorted_results), number_of_terms_to_display,
                       count_displayed + 1, f, tag_of,
                       Append(acc, Head(sorted_results)))

\* round x / d to the nearest integer
RoundDiv(x, d) ==
    IF x >= 0 THEN (2 * x + d) \div (2 * d) ELSE -((2 * (-x) + d) \div (2 * d))

\* '{:17.2f}'.format(score): hundredths
Format2f(score) == RoundDiv(score, DunningScale \div 100)

\* '{:16.4f}%'.format(freq * 100): ten-thousandths of a percent
FormatPercent(freq) == RoundDiv(freq.num * 1000000, freq.den)

\* one line of a table
Row(item) ==
    [term        |-> item.term,
     dunning     |-> Format2f(item.rec.dunning),
     count_total |-> item.rec.count_total,
     count_corp1 |-> item.rec.count_corp1,
     count_corp2 |-> item.rec.count_corp2,
     freq_total  |-> FormatPercent(item.rec.freq_total),
     freq_corp1  |-> FormatPercent(item.rec.freq_corp1),
     freq_corp2  |-> FormatPercent(item.rec.freq_corp2)]

Rows(items) == [i \in DOMAIN items |-> Row(items[i])]

\* `reverse = True; if i == 1: reverse = False'
DisplayerReverse(i) == i # 1

\* the table for corpus i (0 or 1)
DisplayerTable(items, number_of_terms_to_display, f, tag_of, i) ==
    Rows(RankWalk(SortedResults(items, DisplayerReverse(i)),
                  number_of_terms_to_display, 0, f, tag_of, <<>>))

\* dunning_result_displayer: the two tables it prints, or the error it raises
DunningResultDisplayer(items, number_of_terms_to_display, part_of_speech_to_include, tag_of) ==
    IF Unhashable(part_of_speech_to_include)
    THEN [raised |-> "TypeError", tables |-> <<>>]
    ELSE LET f == ResolveFilter(part_of_speech_to_include)
         IN  [raised |-> "",
              tables |-> <<DisplayerTable(items, number_of_terms_to_display, f, tag_of, 0),
                           DisplayerTable(items, number_of_terms_to_display, f, tag_of, 1)>>]

\* position of a key in a dict kept as the sequence of its items, 0 if absent
RECURSIVE IndexOf(_, _, _)
IndexOf(dict, key, i) ==
    IF i > Len(dict) THEN 0
    ELSE IF dict[i].term = key THEN i
    ELSE IndexOf(dict, key, i + 1)

\* dict[key] = rec
DictSet(dict, key, rec) ==
    LET i == IndexOf(dict, key, 1)
    IN  IF i = 0 THEN Append(dict, [term |-> key, rec |-> rec])
        ELSE [dict EXCEPT ![i] = [term |-> key, rec |-> rec]]

RECURSIVE DictSetAll(_, _)
DictSetAll(dict, items) ==
    IF items = <<>> THEN dict
    ELSE DictSetAll(DictSet(dict, Head(items).term, Head(items).rec), Tail(items))

\* a variant that never resets `reverse'
ToDictReverseNeverReset(i) == TRUE

\* `reverse = True' before the loop, `reverse = False' at the end of a pass
ToDictReverse(i) == i = 0

\* dunning_result_to_dict: the dict it returns, or the error it raises
DunningResultToDict(items, number_of_terms_to_display, part_of_speech_to_include, tag_of) ==
    IF Unhashable(part_of_speech_to_include)
    THEN [raised |-> "TypeError", dict |-> <<>>]
    ELSE LET f == ResolveFilter(part_of_speech_to_include)
             pass0 == RankWalk(SortedResults(items, ToDictReverse(0)),
                               number_of_terms_to_display, 0, f, tag_of, <<>>)
             pass1 == RankWalk(SortedResults(items, ToDictReverse(1)),
                               number_of_terms_to_display, 0, f, tag_of, <<>>)
         IN  [raised |-> "", dict |-> DictSetAll(DictSetAll(<<>>, pass0), pass1)]

\* scores of the result sets handed to the ranking, in units of 1/DunningScale
RankScores == {-DunningScale, 0, DunningScale}

\* result sets: up to three terms in any insertion order
RankResults ==
    LET cand == UNION {[1..k -> Terms \X RankScores] : k \in 0..Cardinality(Terms)}
        distinct(q) == \A i, j \in DOMAIN q : i # j => q[i][1] # q[j][1]
    IN  {[i \in DOMAIN q |->
             [term |-> q[i][1],
              rec  |-> ResultRecord(q[i][2], 1, 10, 21, 21)]] :
         q \in {c \in cand : distinct(c)}}

(***************************************************************************)
(* The pickle cache (common.py) and the analysis entry points              *)
(***************************************************************************)
METADATA_LIST ==
    {"author", "date", "title", "country_publication", "author_gender",
     "subject", "notes"}

\* a variant that looks for the 'author' field
LacksAuthorGenderWrongField(corpus_metadata) == "author" \notin corpus_metadata

\* `if 'author_gender' not in corpus.get_corpus_metadata()'
LacksAuthorGender(corpus_metadata) == "author_gender" \notin corpus_metadata

\* load_pickle(filename): the function raises before it opens the file
LoadPickle(store, filename) == [raised |-> "IOError", obj |-> <<>>]

\* store_pickle(obj, filename): the store with the object under filename
StorePickle(store, obj, filename) ==
    [k \in DOMAIN store \cup {filename} |-> IF k = filename THEN obj ELSE store[k]]

\* Counter() += counter keeps the positive counts only
KeepPositive(counter) ==
    [w \in {x \in DOMAIN counter : counter[x] > 0} |-> counter[w]]

\* `for group in [None, 'verbs', 'adjectives', 'pronouns', 'adverbs']:
\*      dunning_result_displayer(results, ...)'
DisplayGroups ==
    <<"dunning_result_displayer", "dunning_result_displayer",
      "dunning_result_displayer", "dunning_result_displayer",
      "dunning_result_displayer">>

\* what a call of an entry point leaves: how it ended, what it returned, the
\* calls it made on its collaborators, in order, and the pickle store
Ended(how, results, calls, store) ==
    [outcome |-> how, results |-> results, trace |-> calls, store |-> store]

\* a variant of the cached computation that pickles whatever to_pickle says
LoadOrComputeAlwaysStores(pickle_filename, before, c1, c2, pickle, show, store) ==
    LET st == DunningTotal(c1, c2)
        shown == IF show THEN DisplayGroups ELSE <<>>
    IN  IF st.raised # ""
        THEN Ended(st.raised, <<>>,
                   <<"load_pickle">> \o before \o <<"dunning_total">>, store)
        ELSE Ended("returned", st.result,
                   <<"load_pickle">> \o before
                       \o <<"dunning_total", "store_pickle">> \o shown,
                   StorePickle(store, st.result, pickle_filename))

\* `try: results = load_pickle(pickle_filename)
\*  except IOError: ... results = dunning_total(counter1, counter2[, filename_to_pickle])'
\* followed by the optional display; `before' are the calls made between the
\* cache read and dunning_total
LoadOrCompute(pickle_filename, before, c1, c2, pickle, show, store) ==
    LET loaded == LoadPickle(store, pickle_filename)
        st == DunningTotal(c1, c2)
        shown == IF show THEN DisplayGroups ELSE <<>>
    IN  IF loaded.raised = ""
        THEN Ended("returned", loaded.obj, <<"load_pickle">> \o shown, store)
        ELSE IF st.raised # ""
        THEN Ended(st.raised, <<>>,
                   <<"load_pickle">> \o before \o <<"dunning_total">>, store)
        ELSE IF pickle
        THEN Ended("returned", st.result,
                   <<"load_pickle">> \o before
                       \o <<"dunning_total", "store_pickle">> \o shown,
                   StorePickle(store, st.result, pickle_filename))
        ELSE Ended("returned", st.result,
                   <<"load_pickle">> \o before \o <<"dunning_total">> \o shown,
                   store)

FilterTwice == <<"filter_by_gender", "filter_by_gender">>

\* male_vs_female_analysis_dunning(corpus, display_data, to_pickle)
MaleVsFemaleAnalysisDunning(corpus_metadata, males, females, pickle, show, store) ==
    IF LacksAuthorGender(corpus_metadata)
    THEN Ended("ValueError", <<>>, <<>>, store)
    ELSE LoadOrCompute("dunning_male_vs_female_chars", FilterTwice,
                       KeepPositive(males), KeepPositive(females),
                       pickle, show, store)

\* male_vs_female_authors_analysis_dunning(corpus, display_results, to_pickle)
MaleVsFemaleAuthorsAnalysisDunning(corpus_metadata, males, females, pickle, show, store) ==
    IF LacksAuthorGender(corpus_metadata)
    THEN Ended("ValueError", <<>>, <<>>, store)
    ELSE LoadOrCompute("dunning_male_vs_female_authors", FilterTwice,
                       females, males, pickle, show, store)

\* compare_word_association_between_corpus_analysis_dunning: building the
\* pickle filename reads corpus1_name, a name bound nowhere
CompareWordAssociationBetweenCorpus(c1, c2, pickle, store) ==
    Ended("NameError", <<>>, <<>>, store)

\* female_characters_, male_characters_, god_, money_ and
\* america_author_gender_differences(corpus, to_pickle)
AuthorGenderDifferences(corpus_metadata, males, females, pickle, store) ==
    IF LacksAuthorGender(corpus_metadata)
    THEN Ended("ValueError", <<>>, <<>>, store)
    ELSE LET r == CompareWordAssociationBetweenCorpus(females, males, pickle, store)
         IN  [r EXCEPT !.trace = FilterTwice \o @]

\* f'dunning_{word1}_vs_{word2}_associated_words_{corpus.corpus_name}'
AssociatedWordsFilename(word1, word2) ==
    CASE word1 = "he" /\ word2 = "she" -> "dunning_he_vs_she_associated_words"
      [] word1 = "she" /\ word2 = "he" -> "dunning_she_vs_he_associated_words"

\* compare_word_association_in_corpus_analysis_dunning(word1, word2, corpus,
\* to_pickle): the first load_pickle, then, in its except branch, the same
\* with pickle_filename rebound to the name with the two words exchanged
CompareWordAssociationInCorpus(word1, word2, word1_counter, word2_counter, pickle, store) ==
    LET first == LoadPickle(store, AssociatedWordsFilename(word1, word2))
        second == LoadOrCompute(AssociatedWordsFilename(word2, word1), <<>>,
                                word1_counter, word2_counter, pickle, TRUE, store)
    IN  IF first.raised = ""
        THEN Ended("returned", first.obj, <<"load_pickle">> \o DisplayGroups, store)
        ELSE [second EXCEPT !.trace = <<"load_pickle">> \o @]

\* he_vs_she_associations_analysis_dunning(corpus, to_pickle): ends without a
\* return statement
HeVsSheAssociations(he_counter, she_counter, pickle, store) ==
    LET r == LoadOrCompute("dunning_he_vs_she_associated_words", <<>>,
                           she_counter, he_counter, pickle, TRUE, store)
    IN  [r EXCEPT !.results = <<>>]

\* counters of a partition: the counts of words that occur are positive
EntryTables == {t \in Tables : \A w \in DOMAIN t : t[w] \in {1, MaxCount}}

(***************************************************************************)
(* State                                                                   *)
(***************************************************************************)
VARIABLES
    table_1, table_2,       \* the caller's frequency tables, as supplied
    counter1, counter2,     \* the same objects as dunning_total leaves them
    pc,                     \* "ready", then the call that has run
    dunning_result,         \* the result set: returned by dunning_total, or
                            \* handed to the displayer and to_dict
    outcome,                \* "none", "returned" or the name of the exception
    call_args,              \* arguments of the dunn_individual_word call
    call_result,            \* what that call returned or raised
    top_n,                  \* number_of_terms_to_display
    pos_filter,             \* part_of_speech_to_include
    tagger,                 \* nltk.pos_tag on a bare term: term -> tag
    output,                 \* the tables printed by dunning_result_displayer
    final_results_dict,     \* the dict returned by dunning_result_to_dict
    metadata,               \* corpus.get_corpus_metadata()
    male_counter,           \* word counts of the male-author partition, or
                            \* of the words associated with 'he'
    female_counter,         \* word counts of the female-author partition, or
                            \* of the words associated with 'she'
    to_pickle,              \* the to_pickle argument
    display,                \* the display_data / display_results argument
    trace,                  \* calls made by the entry point, in order
    pickle_store,           \* the pickle_data directory: filename -> object
    words,                  \* <<word1, word2>> of the in-corpus comparison
    loaded                  \* what the last load_pickle call gave

totalVars == <<table_1, table_2, counter1, counter2, call_args, call_result>>

rankVars == <<top_n, pos_filter, tagger, output, final_results_dict>>

entryVars == <<metadata, male_counter, female_counter, to_pickle, display,
               trace, pickle_store, words, loaded>>

vars == <<table_1, table_2, counter1, counter2, pc, dunning_result, outcome,
          call_args, call_result, top_n, pos_filter, tagger, output,
          final_results_dict, metadata, male_counter, female_counter,
          to_pickle, display, trace, pickle_store, words, loaded>>

NotLoaded == [filename |-> "", raised |-> "", obj |-> <<>>]

NoArgs == [total_1 |-> 0, total_2 |-> 0, count_1 |-> 0, count_2 |-> 0]

\* nothing ranked yet
RankIdle ==
    /\ top_n = 0
    /\ pos_filter = FilterNone
    /\ tagger = [t \in Terms |-> "NN"]
    /\ output = <<>>
    /\ final_results_dict = <<>>

\* no entry point called
EntryIdle ==
    /\ metadata = {}
    /\ male_counter = <<>>
    /\ female_counter = <<>>
    /\ to_pickle = FALSE
    /\ display = FALSE
    /\ trace = <<>>
    /\ pickle_store = <<>>
    /\ words = <<"he", "she">>
    /\ loaded = NotLoaded

\* no table compared yet
TotalIdle ==
    /\ table_1 = <<>>
    /\ table_2 = <<>>
    /\ counter1 = <<>>
    /\ counter2 = <<>>
    /\ call_args = NoArgs
    /\ call_result = Raised("")

Init ==
    /\ table_1 \in Tables
    /\ table_2 \in Tables
    /\ counter1 = table_1
    /\ counter2 = table_2
    /\ pc = "ready"
    /\ dunning_result = <<>>
    /\ outcome = "none"
    /\ call_args = NoArgs
    /\ call_result = Raised("")
    /\ RankIdle
    /\ EntryIdle

\* results = dunning_total(table_1, table_2)
CallDunningTotal ==
    /\ pc = "ready"
    /\ LET st == DunningTotal(counter1, counter2)
       IN  /\ counter1' = st.counter1
           /\ counter2' = st.counter2
           /\ dunning_result' = IF st.raised = "" THEN st.result ELSE <<>>
           /\ outcome' = IF st.raised = "" THEN "returned" ELSE st.raised
    /\ pc' = "dunning_total"
    /\ UNCHANGED <<table_1, table_2, call_args, call_result>>
    /\ UNCHANGED rankVars
    /\ UNCHANGED entryVars

\* dunn_individual_word(sum(table_1), sum(table_2), table_1[word], table_2[word])
CallDunnIndividualWord ==
    /\ pc = "ready"
    /\ \E word \in DOMAIN counter1 \cap DOMAIN counter2 :
          LET args == [total_1 |-> TotalWords(counter1),
                       total_2 |-> TotalWords(counter2),
                       count_1 |-> counter1[word],
                       count_2 |-> counter2[word]]
          IN  /\ call_args' = args
              /\ call_result' = DunnIndividualWord(args.total_1, args.total_2,
                                                   args.count_1, args.count_2)
    /\ pc' = "dunn_individual_word"
    /\ UNCHANGED <<table_1, table_2, counter1, counter2, dunning_result, outcome>>
    /\ UNCHANGED rankVars
    /\ UNCHANGED entryVars

\* dunn_individual_word_by_corpus(corpus1, corpus2, word), the corpora having
\* the word counters table_1 and table_2
CallDunnIndividualWordByCorpus ==
    /\ pc = "ready"
    /\ \E word \in Terms :
          /\ call_args' = [total_1 |-> TotalWords(counter1),
                           total_2 |-> TotalWords(counter2),
                           count_1 |-> CounterGet(counter1, word),
                           count_2 |-> CounterGet(counter2, word)]
          /\ call_result' = DunnIndividualWordByCorpus(counter1, counter2, word)
    /\ pc' = "dunn_individual_word_by_corpus"
    /\ UNCHANGED <<table_1, table_2, counter1, counter2, dunning_result, outcome>>
    /\ UNCHANGED rankVars
    /\ UNCHANGED entryVars

Next ==
    \/ CallDunningTotal
    \/ CallDunnIndividualWord
    \/ CallDunnIndividualWordByCorpus

Spec == Init /\ [][Next]_vars

(***************************************************************************)
(* Ranking and display of a result set                                     *)
(***************************************************************************)
InitRank ==
    /\ TotalIdle
    /\ pc = "ready"
    /\ dunning_result \in RankResults
    /\ outcome = "none"
    /\ top_n \in 0..MaxTopN
    /\ pos_filter \in Filters
    /\ tagger \in [Terms -> Tags]
    /\ output = <<>>
    /\ final_results_dict = <<>>
    /\ EntryIdle

\* dunning_result_displayer(dunning_result, top_n, part_of_speech_to_include=pos_filter)
CallResultDisplayer ==
    /\ pc = "ready"
    /\ LET r == DunningResultDisplayer(dunning_result, top_n, pos_filter, tagger)
       IN  /\ output' = r.tables
           /\ outcome' = IF r.raised = "" THEN "returned" ELSE r.raised
    /\ pc' = "displayer"
    /\ UNCHANGED <<dunning_result, top_n, pos_filter, tagger, final_results_dict>>
    /\ UNCHANGED totalVars
    /\ UNCHANGED entryVars

\* dunning_result_to_dict(dunning_result, top_n, pos_filter)
CallResultToDict ==
    /\ pc = "ready"
    /\ LET r == DunningResultToDict(dunning_result, top_n, pos_filter, tagger)
       IN  /\ final_results_dict' = r.dict
           /\ outcome' = IF r.raised = "" THEN "returned" ELSE r.raised
    /\ pc' = "to_dict"
    /\ UNCHANGED <<dunning_result, top_n, pos_filter, tagger, output>>
    /\ UNCHANGED totalVars
    /\ UNCHANGED entryVars

NextRank ==
    \/ CallResultDisplayer
    \/ CallResultToDict

SpecRank == InitRank /\ [][NextRank]_vars

(***************************************************************************)
(* The analysis entry points on a corpus                                   *)
(***************************************************************************)
InitEntry ==
    /\ TotalIdle
    /\ RankIdle
    /\ pc = "ready"
    /\ dunning_result = <<>>
    /\ outcome = "none"
    /\ metadata \in {METADATA_LIST, METADATA_LIST \ {"author_gender"}}
    /\ male_counter \in EntryTables
    /\ female_counter \in EntryTables
    /\ to_pickle \in BOOLEAN
    /\ display \in BOOLEAN
    /\ trace = <<>>
    /\ pickle_store = <<>>
    /\ words \in {<<"he", "she">>, <<"she", "he">>}
    /\ loaded = NotLoaded

\* the words associated with a word, counted over the novels of the corpus
AssociatedCounter(word) == IF word = "he" THEN male_counter ELSE female_counter

\* the state after a call of the entry point `name' that ended as r
EntryDone(name, r) ==
    /\ pc = "ready"
    /\ pc' = name
    /\ outcome' = r.outcome
    /\ dunning_result' = r.results
    /\ trace' = r.trace
    /\ pickle_store' = r.store
    /\ UNCHANGED <<metadata, male_counter, female_counter, to_pickle, display,
                   words, loaded>>
    /\ UNCHANGED totalVars
    /\ UNCHANGED rankVars

CallMaleVsFemaleAnalysisDunning ==
    EntryDone("male_vs_female_analysis_dunning",
              MaleVsFemaleAnalysisDunning(metadata, male_counter, female_counter,
                                          to_pickle, display, pickle_store))

CallMaleVsFemaleAuthorsAnalysisDunning ==
    EntryDone("male_vs_female_authors_analysis_dunning",
              MaleVsFemaleAuthorsAnalysisDunning(metadata, male_counter,
                                                 female_counter, to_pickle,
                                                 display, pickle_store))

CallFemaleCharactersAuthorGenderDifferences ==
    EntryDone("female_characters_author_gender_differences",
              AuthorGenderDifferences(metadata, male_counter, female_counter,
                                      to_pickle, pickle_store))

CallMaleCharactersAuthorGenderDifferences ==
    EntryDone("male_characters_author_gender_differences",
              AuthorGenderDifferences(metadata, male_counter, female_counter,
                                      to_pickle, pickle_store))

CallGodAuthorGenderDifferences ==
    EntryDone("god_author_gender_differences",
              AuthorGenderDifferences(metadata, male_counter, female_counter,
                                      to_pickle, pickle_store))

CallMoneyAuthorGenderDifferences ==
    EntryDone("money_author_gender_differences",
              AuthorGenderDifferences(metadata, male_counter, female_counter,
                                      to_pickle, pickle_store))

CallAmericaAuthorGenderDifferences ==
    EntryDone("america_author_gender_differences",
              AuthorGenderDifferences(metadata, male_counter, female_counter,
                                      to_pickle, pickle_store))

CallCompareWordAssociationInCorpus ==
    EntryDone("compare_word_association_in_corpus_analysis_dunning",
              CompareWordAssociationInCorpus(words[1], words[2],
                                             AssociatedCounter(words[1]),
                                             AssociatedCounter(words[2]),
                                             to_pickle, pickle_store))

CallHeVsSheAssociations ==
    EntryDone("he_vs_she_associations_analysis_dunning",
              HeVsSheAssociations(male_counter, female_counter, to_pickle,
                                  pickle_store))

NextEntry ==
    \/ CallMaleVsFemaleAnalysisDunning
    \/ CallMaleVsFemaleAuthorsAnalysisDunning
    \/ CallFemaleCharactersAuthorGenderDifferences
    \/ CallMaleCharactersAuthorGenderDifferences
    \/ CallGodAuthorGenderDifferences
    \/ CallMoneyAuthorGenderDifferences
    \/ CallAmericaAuthorGenderDifferences
    \/ CallCompareWordAssociationInCorpus
    \/ CallHeVsSheAssociations

SpecEntry == InitEntry /\ [][NextEntry]_vars

(***************************************************************************)
(* The pickle cache on its own                                             *)
(***************************************************************************)
PickleFilenames ==
    {"dunning_male_vs_female_chars", "dunning_male_vs_female_authors",
     "dunning_he_vs_she_associated_words"}

\* objects handed to store_pickle: result sets of at most one term
PickleObjects == {r \in RankResults : Len(r) <= 1}

InitCache ==
    /\ TotalIdle
    /\ RankIdle
    /\ EntryIdle
    /\ pc = "ready"
    /\ dunning_result = <<>>
    /\ outcome = "none"

\* store_pickle(obj, filename)
CallStorePickle ==
    /\ \E obj \in PickleObjects, filename \in PickleFilenames :
          pickle_store' = StorePickle(pickle_store, obj, filename)
    /\ pc' = "store_pickle"
    /\ outcome' = "returned"
    /\ UNCHANGED <<dunning_result, metadata, male_counter, female_counter,
                   to_pickle, display, trace, words, loaded>>
    /\ UNCHANGED totalVars
    /\ UNCHANGED rankVars

\* load_pickle(filename)
CallLoadPickle ==
    /\ \E filename \in PickleFilenames :
          LET r == LoadPickle(pickle_store, filename)
          IN  /\ loaded' = [filename |-> filename, raised |-> r.raised,
                            obj |-> r.obj]
              /\ outcome' = IF r.raised = "" THEN "returned" ELSE r.raised
    /\ pc' = "load_pickle"
    /\ UNCHANGED <<dunning_result, metadata, male_counter, female_counter,
                   to_pickle, display, trace, words, pickle_store>>
    /\ UNCHANGED totalVars
    /\ UNCHANGED rankVars

NextCache ==
    \/ CallStorePickle
    \/ CallLoadPickle

SpecCache == InitCache /\ [][NextCache]_vars

(***************************************************************************)
(* Properties of dunning_total and dunn_individual_word (checked under     *)
(* Spec)                                                                   *)
(***************************************************************************)
\* the items of a returned result set
Items == {dunning_result[i] : i \in DOMAIN dunning_result}

ResultTerms == {it.term : it \in Items}

TotalReturned == pc = "dunning_total" /\ outcome = "returned"

RECURSIVE TableSum(_)
TableSum(t) ==
    IF DOMAIN t = {} THEN 0
    ELSE LET w == CHOOSE x \in DOMAIN t : TRUE
         IN  t[w] + TableSum([x \in DOMAIN t \ {w} |-> t[x]])

\* C1: every term of the result of dunning_total(table_1, table_2) is a key of
\* both tables and has combined count of at least 10; a term only in table_2,
\* or a shared term with combined count 9 or less, is never in the result.
C1_SharedAboveThreshold ==
    TotalReturned =>
        /\ \A w \in ResultTerms :
              /\ w \in DOMAIN table_1 /\ w \in DOMAIN table_2
              /\ table_1[w] + table_2[w] >= 10
        /\ \A w \in DOMAIN table_2 \ DOMAIN table_1 : w \notin ResultTerms
        /\ \A w \in DOMAIN table_1 \cap DOMAIN table_2 :
              table_1[w] + table_2[w] <= 9 => w \notin ResultTerms

C1_Witness ==
    /\ TotalReturned
    /\ ResultTerms # {}
    /\ DOMAIN table_2 \ DOMAIN table_1 # {}
    /\ \E w \in DOMAIN table_1 \cap DOMAIN table_2 :
          /\ table_1[w] > 0 /\ table_2[w] > 0
          /\ table_1[w] + table_2[w] = 9

ExampleTable1 == [w \in Terms |-> IF w = "he" THEN 1 ELSE 10]

ExampleTable2 == [w \in Terms |-> IF w = "she" THEN 1 ELSE 10]

\* C2: every record of the result holds the two counts of its term, their sum,
\* and the three frequencies count / total; for the tables {he:1, she:10,
\* and:10} and {he:10, she:1, and:10} the record of 'he' has counts (11, 1, 10)
\* and frequencies (11/42, 1/21, 10/21).
C2_RecordFields ==
    TotalReturned =>
        /\ \A it \in Items :
              /\ it.rec.count_corp1 = table_1[it.term]
              /\ it.rec.count_corp2 = table_2[it.term]
              /\ it.rec.count_total = it.rec.count_corp1 + it.rec.count_corp2
              /\ it.rec.freq_corp1.num * TableSum(table_1)
                    = it.rec.count_corp1 * it.rec.freq_corp1.den
              /\ it.rec.freq_corp2.num * TableSum(table_2)
                    = it.rec.count_corp2 * it.rec.freq_corp2.den
              /\ it.rec.freq_total.num * (TableSum(table_1) + TableSum(table_2))
                    = it.rec.count_total * it.rec.freq_total.den
              /\ it.rec.freq_corp1.den > 0 /\ it.rec.freq_corp2.den > 0
              /\ it.rec.freq_total.den > 0
        /\ (table_1 = ExampleTable1 /\ table_2 = ExampleTable2) =>
              \E it \in Items :
                 /\ it.term = "he"
                 /\ it.rec.count_total = 11
                 /\ it.rec.count_corp1 = 1
                 /\ it.rec.count_corp2 = 10
                 /\ it.rec.freq_total = [num |-> 11, den |-> 42]
                 /\ it.rec.freq_corp1 = [num |-> 1, den |-> 21]
                 /\ it.rec.freq_corp2 = [num |-> 10, den |-> 21]

C2_Witness ==
    /\ TotalReturned
    /\ table_1 = ExampleTable1 /\ table_2 = ExampleTable2
    /\ Len(dunning_result) = 3

WordScored ==
    /\ pc = "dunn_individual_word"
    /\ call_args.count_1 > 0 /\ call_args.count_2 > 0

\* C3: for positive counts the score is negative exactly when corpus 1's count
\* is below its expected count (count_1 * total_2 < count_2 * total_1) and
\* non-negative otherwise.
C3_SignConvention ==
    WordScored =>
        /\ call_result.raised = ""
        /\ (call_result.value < 0 <=>
              call_args.count_1 * call_args.total_2
                 < call_args.count_2 * call_args.total_1)
        /\ (call_args.count_1 * call_args.total_2
                 > call_args.count_2 * call_args.total_1
              => call_result.value > 0)

C3_Witness ==
    /\ WordScored
    /\ call_args.count_1 * call_args.total_2
          < call_args.count_2 * call_args.total_1
    /\ call_result.value < 0

\* C4: for positive counts, swapping the two partitions negates the score.
C4_SwapNegates ==
    WordScored =>
        LET swapped == DunnIndividualWord(call_args.total_2, call_args.total_1,
                                          call_args.count_2, call_args.count_1)
        IN  /\ swapped.raised = "" /\ call_result.raised = ""
            /\ swapped.value = -call_result.value

C4_Witness ==
    /\ WordScored
    /\ call_result.value > 0
    /\ call_args.total_1 # call_args.total_2

EqualFrequency ==
    /\ WordScored
    /\ call_args.count_1 * call_args.total_2
          = call_args.count_2 * call_args.total_1

\* C5: a term with equal relative frequency in both partitions scores 0 and
\* the sign-flip branch is not taken.
C5_EqualFrequencyIsZero ==
    EqualFrequency =>
        /\ call_result.raised = ""
        /\ call_result.value = 0
        /\ ~FlipTaken(call_args.total_1, call_args.total_2,
                      call_args.count_1, call_args.count_2)

C5_Witness ==
    /\ EqualFrequency
    /\ call_args.count_1 # call_args.count_2

\* C8: after any call of dunning_total, whether it returns or raises, both
\* tables have exactly the keys and counts they had before the call.
C8_InputsUnchanged ==
    pc = "dunning_total" => counter1 = table_1 /\ counter2 = table_2

C8_Witness ==
    /\ TotalReturned
    /\ ResultTerms # {}
    /\ DOMAIN table_1 \ DOMAIN table_2 # {}
    /\ counter2 = table_2

EmptyOrZeroTotal(t) == DOMAIN t = {} \/ TableSum(t) = 0

\* C10: dunning_total called with an empty frequency table, or one whose
\* counts sum to zero, as either argument fails with an error instead of
\* returning a result set.
C10_EmptyTableFails ==
    (pc = "dunning_total" /\ (EmptyOrZeroTotal(table_1) \/ EmptyOrZeroTotal(table_2)))
        => outcome # "returned"

(***************************************************************************)
(* Properties of the ranking and display (checked under SpecRank)          *)
(***************************************************************************)
Min(x, y) == IF x <= y THEN x ELSE y

TermsOf(items) == [i \in DOMAIN items |-> items[i].term]

\* the tag sets of the four named categories
NamedTagSet(n) ==
    CASE n = "adjectives" -> {"JJ", "JJR", "JJS"}
      [] n = "adverbs"    -> {"RB", "RBR", "RBS", "WRB"}
      [] n = "verbs"      -> {"VB", "VBD", "VBG", "VBN", "VBP", "VBZ"}
      [] n = "pronouns"   -> {"PRP", "PRP$", "WP", "WP$"}

RecognizedName(f) ==
    f.kind = "str" /\ f.name \in {"adjectives", "adverbs", "verbs", "pronouns"}

\* filters that name a tag set: None, a named category, an explicit collection
HasFilterSet(f) == f.kind \in {"None", "tuple", "list"} \/ RecognizedName(f)

\* a term matches when no usable filter is given or its tag is in the filter set
Matches(term) ==
    CASE pos_filter.kind = "None"    -> TRUE
      [] RecognizedName(pos_filter)  -> tagger[term] \in NamedTagSet(pos_filter.name)
      [] OTHER -> pos_filter.tags = <<>> \/ tagger[term] \in Range(pos_filter.tags)

\* position of item i when the result set is sorted by score, equal scores in
\* insertion order
SortedPosition(i, descending) ==
    LET si == dunning_result[i].rec.dunning
        ahead == {j \in DOMAIN dunning_result :
                     LET sj == dunning_result[j].rec.dunning
                     IN  \/ (descending /\ sj > si)
                         \/ (~descending /\ sj < si)
                         \/ (sj = si /\ j < i)}
    IN  1 + Cardinality(ahead)

SortedWhole(descending) ==
    [p \in DOMAIN dunning_result |->
        dunning_result[CHOOSE i \in DOMAIN dunning_result :
                           SortedPosition(i, descending) = p]]

\* the first min(top_n, matching count) matching items of the sorted result set
TopMatching(descending) ==
    LET matching == SelectSeq(SortedWhole(descending), LAMBDA it : Matches(it.term))
    IN  SubSeq(matching, 1, Min(top_n, Len(matching)))

RankReturned ==
    /\ pc \in {"displayer", "to_dict"}
    /\ outcome = "returned"
    /\ HasFilterSet(pos_filter)

\* C6: each of the two tables of dunning_result_displayer, and each of the two
\* passes of dunning_result_to_dict, selects exactly the first
\* min(top_n, matching count) items of the whole result set sorted by score
\* (descending for corpus 1, ascending for corpus 2) and then restricted to the
\* terms whose tag is in the filter set, so that a skipped term uses up no slot
\* and the order of the matching terms is kept.
C6_TopMatchingAfterSort ==
    RankReturned =>
        LET first == TopMatching(TRUE)
            second == TopMatching(FALSE)
            fresh == SelectSeq(second, LAMBDA it : it.term \notin Range(TermsOf(first)))
        IN  /\ pc = "displayer" =>
                  /\ Len(output) = 2
                  /\ TermsOf(output[1]) = TermsOf(first)
                  /\ TermsOf(output[2]) = TermsOf(second)
            /\ pc = "to_dict" =>
                  TermsOf(final_results_dict) = TermsOf(first) \o TermsOf(fresh)

\* a table of top_n rows although a term with a higher score had to be skipped
C6_Witness ==
    /\ RankReturned
    /\ pc = "displayer"
    /\ top_n >= 1
    /\ Len(output[1]) = top_n
    /\ Len(SelectSeq(dunning_result, LAMBDA it : Matches(it.term))) > top_n
    /\ \E i \in DOMAIN dunning_result :
          /\ ~Matches(dunning_result[i].term)
          /\ dunning_result[i].rec.dunning > output[1][1].dunning * (DunningScale \div 100)

\* C7: the rows rendered by dunning_result_displayer are exactly the terms
\* selected by the ranking, in the same order: the terms of its two tables are
\* the keys returned by dunning_result_to_dict for the same arguments, and each
\* key maps to the unchanged record of the input result set.
C7_DisplayerAgreesWithDict ==
    (pc = "displayer" /\ outcome = "returned") =>
        LET d == DunningResultToDict(dunning_result, top_n, pos_filter, tagger)
            shown == TermsOf(output[1]) \o TermsOf(output[2])
            keys == TermsOf(d.dict)
        IN  /\ d.raised = ""
            /\ Range(shown) = Range(keys)
            /\ keys = TermsOf(output[1])
                        \o SelectSeq(TermsOf(output[2]),
                                     LAMBDA t : t \notin Range(TermsOf(output[1])))
            /\ \A i \in DOMAIN d.dict :
                  \E j \in DOMAIN dunning_result : dunning_result[j] = d.dict[i]

\* both tables are cut short by top_n and show different terms
C7_Witness ==
    /\ pc = "displayer" /\ outcome = "returned"
    /\ top_n >= 1
    /\ Len(output[1]) = top_n /\ Len(output[2]) = top_n
    /\ Range(TermsOf(output[1])) \cap Range(TermsOf(output[2])) = {}
    /\ Truthy(pos_filter)
    /\ Len(dunning_result) > 2 * top_n

(***************************************************************************)
(* Properties of the entry points (checked under SpecEntry)                *)
(***************************************************************************)
AuthorGenderEntryPoints ==
    {"male_vs_female_analysis_dunning",
     "male_vs_female_authors_analysis_dunning",
     "female_characters_author_gender_differences",
     "male_characters_author_gender_differences",
     "god_author_gender_differences",
     "money_author_gender_differences",
     "america_author_gender_differences"}

CalledWithoutAuthorGender ==
    /\ pc \in AuthorGenderEntryPoints
    /\ "author_gender" \notin metadata

\* C9: every entry point that partitions by author gender, called on a corpus
\* whose metadata lacks 'author_gender', raises ValueError before any cache
\* read, partition filter, comparison or cache write.
C9_ValueErrorBeforeAnything ==
    CalledWithoutAuthorGender =>
        /\ outcome = "ValueError"
        /\ trace = <<>>
        /\ pickle_store = <<>>
        /\ dunning_result = <<>>

C9_Witness ==
    /\ CalledWithoutAuthorGender
    /\ pc = "male_vs_female_authors_analysis_dunning"
    /\ to_pickle
    /\ outcome = "ValueError"

CachedEntryPoints ==
    {"compare_word_association_in_corpus_analysis_dunning",
     "male_vs_female_analysis_dunning",
     "male_vs_female_authors_analysis_dunning",
     "he_vs_she_associations_analysis_dunning"}

\* positions of a call in the trace
Calls(name) == {i \in DOMAIN trace : trace[i] = name}

\* the rest of C11, whatever the number of cache reads: at most one write,
\* every read before the comparison, one comparison and a normal return after
\* a miss, a write only after the comparison and only with to_pickle
CacheDiscipline ==
    /\ Cardinality(Calls("store_pickle")) <= 1
    /\ \A r \in Calls("load_pickle") : \A c \in Calls("dunning_total") : r < c
    /\ Calls("load_pickle") # {} =>
          /\ Cardinality(Calls("dunning_total")) = 1
          /\ outcome = "returned"
    /\ \A w \in Calls("store_pickle") :
          /\ to_pickle
          /\ \E c \in Calls("dunning_total") : c < w

\* C11 as stated: in every run of a cached entry point the cache is read at
\* most once and written at most once, the read comes before any comparison,
\* a miss leads to exactly one computation by dunning_total and not to an
\* error, and a write comes only after that computation and only when
\* to_pickle is set.
C11_ReadAtMostOnce ==
    pc \in CachedEntryPoints =>
        /\ Cardinality(Calls("load_pickle")) <= 1
        /\ CacheDiscipline

\* C11 as amended: the cache is read at most once, except by
\* compare_word_association_in_corpus_analysis_dunning, which after a miss
\* reads it a second time under the name with the two words exchanged; it is
\* written at most once; every read comes before any comparison; a miss leads
\* to exactly one computation by dunning_total and not to an error; a write
\* comes only after that computation and only when to_pickle is set.
C11_ReadTwiceInCorpus ==
    pc \in CachedEntryPoints =>
        /\ Cardinality(Calls("load_pickle"))
              <= (IF pc = "compare_word_association_in_corpus_analysis_dunning"
                  THEN 2 ELSE 1)
        /\ CacheDiscipline

C11_Witness ==
    /\ pc = "compare_word_association_in_corpus_analysis_dunning"
    /\ to_pickle
    /\ Cardinality(Calls("load_pickle")) = 2
    /\ Calls("store_pickle") # {}
    /\ dunning_result # <<>>

BetweenCorpusEntryPoints ==
    {"female_characters_author_gender_differences",
     "male_characters_author_gender_differences",
     "god_author_gender_differences",
     "money_author_gender_differences",
     "america_author_gender_differences"}

\* C17: compare_word_association_between_corpus_analysis_dunning, and so the
\* five author_gender_differences entry points on a corpus with author_gender
\* metadata, ends normally on a cache miss and returns the result set of
\* dunning_total(corpus1 counter, corpus2 counter).
C17_BetweenCorpusReturns ==
    (pc \in BetweenCorpusEntryPoints /\ "author_gender" \in metadata) =>
        /\ outcome = "returned"
        /\ dunning_result = DunningTotal(female_counter, male_counter).result

\* C18: when compare_word_association_in_corpus_analysis_dunning(word1, word2,
\* corpus, to_pickle=True) computes its result, it stores it under the name
\* that lists the words in the order of the computation, word1 then word2.
C18_StoredUnderComputedOrder ==
    (pc = "compare_word_association_in_corpus_analysis_dunning"
        /\ to_pickle /\ outcome = "returned") =>
        /\ DOMAIN pickle_store = {AssociatedWordsFilename(words[1], words[2])}
        /\ \A k \in DOMAIN pickle_store :
              pickle_store[k] = DunningTotal(AssociatedCounter(words[1]),
                                             AssociatedCounter(words[2])).result

(***************************************************************************)
(* Properties of the pickle cache (checked under SpecCache)                *)
(***************************************************************************)
\* C12: after store_pickle(obj, key), load_pickle(key) returns an object
\* equal to obj; load_pickle signals not-found (IOError) only for keys that
\* have not been stored.
C12_CacheRoundTrip ==
    pc = "load_pickle" =>
        /\ loaded.filename \in DOMAIN pickle_store =>
              /\ loaded.raised = ""
              /\ loaded.obj = pickle_store[loaded.filename]
        /\ loaded.raised = "IOError" => loaded.filename \notin DOMAIN pickle_store

(***************************************************************************)
(* Further properties of dunning_total and the scorer (checked under Spec) *)
(***************************************************************************)
\* C14: for all tables with non-negative counts dunning_total returns
\* normally, and its result has a record for every term that is a key of both
\* tables with a combined count of at least 10, also when one of the two
\* counts is 0.
C14_ReturnsForAllShared ==
    pc = "dunning_total" =>
        /\ outcome = "returned"
        /\ \A w \in DOMAIN table_1 \cap DOMAIN table_2 :
              table_1[w] + table_2[w] >= 10 => w \in ResultTerms

\* C15: dunn_individual_word_by_corpus(corpus1, corpus2, word) returns what
\* dunn_individual_word(total_1, total_2, count_1, count_2) returns for the
\* word's counts and the totals of the two word counters.
C15_ByCorpusAgreesWithScorer ==
    pc = "dunn_individual_word_by_corpus" =>
        call_result = DunnIndividualWord(call_args.total_1, call_args.total_2,
                                         call_args.count_1, call_args.count_2)

PositiveCounts(t) == \A w \in DOMAIN t : t[w] > 0

\* the record of a term in a result set
RecordOf(result, w) ==
    LET i == CHOOSE j \in DOMAIN result : result[j].term = w
    IN  result[i].rec

\* C19: for tables with positive counts, dunning_total(table_1, table_2) and
\* dunning_total(table_2, table_1) have the same keys, with count_corp1 and
\* count_corp2, and freq_corp1 and freq_corp2, exchanged and count_total and
\* freq_total equal.
C19_KeySetSymmetric ==
    (TotalReturned /\ PositiveCounts(table_1) /\ PositiveCounts(table_2)) =>
        LET swapped == DunningTotal(table_2, table_1)
        IN  /\ swapped.raised = ""
            /\ {swapped.result[i].term : i \in DOMAIN swapped.result} = ResultTerms
            /\ \A it \in Items :
                  LET other == RecordOf(swapped.result, it.term)
                  IN  /\ other.count_corp1 = it.rec.count_corp2
                      /\ other.count_corp2 = it.rec.count_corp1
                      /\ other.freq_corp1 = it.rec.freq_corp2
                      /\ other.freq_corp2 = it.rec.freq_corp1
                      /\ other.count_total = it.rec.count_total
                      /\ other.freq_total = it.rec.freq_total

\* table_2 has a term that table_1 lacks, and the counts of a returned term
\* differ between the tables
C19_Witness ==
    /\ TotalReturned
    /\ PositiveCounts(table_1) /\ PositiveCounts(table_2)
    /\ DOMAIN table_2 \ DOMAIN table_1 # {}
    /\ \E it \in Items : it.rec.count_corp1 < it.rec.count_corp2

(***************************************************************************)
(* Further properties of the ranking (checked under SpecRank)              *)
(***************************************************************************)
\* C13: for every value of part_of_speech_to_include the displayer and
\* dunning_result_to_dict return, and select among the terms the filter lets
\* through: every term for None and for a name that is not one of the four
\* categories, the terms tagged with one of its tags for a category name, and
\* the terms tagged with one of its members for an explicit list or tuple.
C13_FilterSetByKind ==
    pc \in {"displayer", "to_dict"} =>
        /\ outcome = "returned"
        /\ pc = "displayer" =>
              /\ TermsOf(output[1]) = TermsOf(TopMatching(TRUE))
              /\ TermsOf(output[2]) = TermsOf(TopMatching(FALSE))
        /\ pc = "to_dict" =>
              Range(TermsOf(final_results_dict))
                  = Range(TermsOf(TopMatching(TRUE)))
                      \cup Range(TermsOf(TopMatching(FALSE)))

\* position of a term in the result set, in insertion order
InsertionIndex(term) ==
    CHOOSE i \in DOMAIN dunning_result : dunning_result[i].term = term

ScoreOf(term) == dunning_result[InsertionIndex(term)].rec.dunning

\* terms of equal score stand in their insertion order
TiesInInsertionOrder(terms) ==
    \A i, j \in DOMAIN terms :
        (i < j /\ ScoreOf(terms[i]) = ScoreOf(terms[j]))
            => InsertionIndex(terms[i]) < InsertionIndex(terms[j])

\* C16: in the descending table for corpus 1 and in the ascending table for
\* corpus 2 alike, and in the keys of dunning_result_to_dict, two terms with
\* equal score appear in their insertion order in the result set.
C16_TieBreakStable ==
    (pc \in {"displayer", "to_dict"} /\ outcome = "returned") =>
        /\ pc = "displayer" =>
              /\ TiesInInsertionOrder(TermsOf(output[1]))
              /\ TiesInInsertionOrder(TermsOf(output[2]))
        /\ pc = "to_dict" => TiesInInsertionOrder(TermsOf(final_results_dict))

\* two terms of equal score are shown in both tables, in the same order
C16_Witness ==
    /\ pc = "displayer" /\ outcome = "returned"
    /\ \E a, b \in Terms :
          /\ a # b
          /\ \A k \in 1..2 :
                \E i, j \in DOMAIN output[k] :
                    /\ i < j
                    /\ output[k][i].term = a /\ output[k][j].term = b
          /\ ScoreOf(a) = ScoreOf(b)

====
